---- MODULE Spec2Model ----
(***************************************************************************)
(* Model of src/linked_list/mod.rs: a singly linked list whose nodes are   *)
(* Rc<RefCell<Node<T>>> cells.  The heap is explicit: a node is a cell     *)
(* with an element and a link; a LinkedList value is a head link and a     *)
(* length counter.  Rc handles are cell addresses, so two handles to the   *)
(* same node are the same address.                                         *)
(***************************************************************************)
EXTENDS Integers, Sequences, FiniteSets, TLC

\* ---------------------------------------------------------------- bounds
MaxNodes == 4      \* heap cells available to Rc::new
MaxLen == 3        \* cap on the len counter (push/insert are disabled above)
MaxVal == 2        \* element values are 1..MaxVal
MaxScript == 4     \* longest push sequence of the push-then-drain scenario

\* ------------------------------------------------------------ data model
Nodes == 1..MaxNodes
NULL == 0
Val == 1..MaxVal
Indices == 0..(MaxLen + 1)

\* Node<T> { elem, next }; a cell that holds no node has elem 0
Node(e, n) == [elem |-> e, next |-> n]
FreeCell == [elem |-> 0, next |-> NULL]

\* LinkedList<T> { head, len }
LinkedList(h, n) == [head |-> h, len |-> n]

\* LinkedList::new
new == LinkedList(NULL, 0)

\* results of a call: what it returned, or that it panicked
Ret(k, v) == [kind |-> k, val |-> v]
Unit == Ret("unit", 0)
None == Ret("none", 0)
Some(v) == Ret("some", v)
Value(v) == Ret("value", v)
Bool(b) == Ret("bool", IF b THEN 1 ELSE 0)
Usize(n) == Ret("usize", n)
PanicBounds == Ret("panic_bounds", 0)
PanicUnwrap == Ret("panic_unwrap", 0)
IsPanic(r) == r.kind \in {"panic_bounds", "panic_unwrap"}

\* outcome of running one method on (heap, list)
Outcome(h, l, r) == [heap |-> h, list |-> l, ret |-> r]

VARIABLES heap, lists, call, ret, script, results
vars == <<heap, lists, call, ret, script, results>>

\* ------------------------------------------------------------- the heap
FreeNodes(h) == {n \in Nodes : h[n].elem = 0}

\* Rc::new(RefCell::new(..)): the cell the allocation lands in
Alloc(h) == CHOOSE n \in FreeNodes(h) : \A m \in FreeNodes(h) : n <= m

\* the nodes met from link n by following next, at most fuel of them
RECURSIVE Chain(_, _, _)
Chain(h, n, fuel) ==
  IF n = NULL \/ fuel = 0 THEN <<>>
  ELSE <<n>> \o Chain(h, h[n].next, fuel - 1)

ChainOf(h, l) == Chain(h, l.head, MaxNodes + 1)
Range(s) == {s[i] : i \in 1..Len(s)}
ElemsOf(h, l) ==
  LET c == ChainOf(h, l)
  IN  [i \in 1..Len(c) |-> h[c[i]].elem]

\* Rc drop: a cell no handle leads to any more is released
Reachable(h, ls) == UNION {Range(ChainOf(h, ls[l])) : l \in DOMAIN ls}
Drop(h, ls) == [n \in Nodes |-> IF n \in Reachable(h, ls) THEN h[n] ELSE FreeCell]

\* -------------------------------------------------------------- push
\* while current.borrow().next.is_some() { current = next }
RECURSIVE LastNode(_, _)
LastNode(h, n) == IF h[n].next = NULL THEN n ELSE LastNode(h, h[n].next)

push_len(n) == n + 1

\* variant: the new node is linked in front of head
push_link_front(h, l, new_node) ==
  Outcome([h EXCEPT ![new_node].next = l.head],
          LinkedList(new_node, push_len(l.len)), Unit)

push_link(h, l, new_node) ==
  IF l.head # NULL
  THEN Outcome([h EXCEPT ![LastNode(h, l.head)].next = new_node],
               LinkedList(l.head, push_len(l.len)), Unit)
  ELSE Outcome(h, LinkedList(new_node, push_len(l.len)), Unit)

push(h, l, elem) ==
  LET new_node == Alloc(h)
  IN  push_link([h EXCEPT ![new_node] = Node(elem, NULL)], l, new_node)

\* -------------------------------------------------------------- pop
\* for _ in 1..(self.len() - 1): the number of iterations
\* variant: the range starts at 0
pop_iters_from0(n) == IF n - 1 > 0 THEN n - 1 ELSE 0

pop_iters(n) == IF n - 1 > 1 THEN (n - 1) - 1 ELSE 0

\* the loop body, k times; cur = NULL at an iteration is unwrap() on None
RECURSIVE pop_walk(_, _, _, _)
pop_walk(h, prev, cur, k) ==
  IF k = 0 THEN [prev |-> prev, current |-> cur, panic |-> FALSE]
  ELSE IF cur = NULL THEN [prev |-> prev, current |-> cur, panic |-> TRUE]
  ELSE pop_walk(h, cur, h[cur].next, k - 1)

pop_len(n) == n - 1

\* variant: the element is read from prev in both branches
pop_unlink_prev(h, l, prev, cur) ==
  IF cur = NULL
  THEN Outcome(h, LinkedList(NULL, pop_len(l.len)), Some(h[prev].elem))
  ELSE Outcome([h EXCEPT ![prev].next = NULL],
               LinkedList(l.head, pop_len(l.len)), Some(h[prev].elem))

\* variant: the single-node branch leaves head in place
pop_unlink_keephead(h, l, prev, cur) ==
  IF cur = NULL
  THEN Outcome(h, LinkedList(l.head, pop_len(l.len)), Some(h[prev].elem))
  ELSE Outcome([h EXCEPT ![prev].next = NULL],
               LinkedList(l.head, pop_len(l.len)), Some(h[cur].elem))

pop_unlink(h, l, prev, cur) ==
  IF cur = NULL
  THEN Outcome(h, LinkedList(NULL, pop_len(l.len)), Some(h[prev].elem))
  ELSE Outcome([h EXCEPT ![prev].next = NULL],
               LinkedList(l.head, pop_len(l.len)), Some(h[cur].elem))

is_empty(l) == l.len = 0
len(l) == l.len

\* variant: no early return for the empty list
pop_unguarded(h, l) ==
  IF l.head = NULL THEN Outcome(h, l, PanicUnwrap)
  ELSE LET w == pop_walk(h, l.head, h[l.head].next, pop_iters(len(l)))
       IN  IF w.panic THEN Outcome(h, l, PanicUnwrap)
           ELSE pop_unlink(h, l, w.prev, w.current)

\* variant: the head node is taken, as the doc comment words it
pop_front(h, l) ==
  IF is_empty(l) THEN Outcome(h, l, None)
  ELSE IF l.head = NULL THEN Outcome(h, l, PanicUnwrap)
  ELSE Outcome(h, LinkedList(h[l.head].next, pop_len(l.len)),
               Some(h[l.head].elem))

pop(h, l) ==
  IF is_empty(l) THEN Outcome(h, l, None)
  ELSE IF l.head = NULL THEN Outcome(h, l, PanicUnwrap)
  ELSE LET w == pop_walk(h, l.head, h[l.head].next, pop_iters(len(l)))
       IN  IF w.panic THEN Outcome(h, l, PanicUnwrap)
           ELSE pop_unlink(h, l, w.prev, w.current)

\* -------------------------------------------------------------- insert
\* for _ in 0..index { current = current.next.unwrap() }: NULL is the panic
RECURSIVE insert_walk(_, _, _)
insert_walk(h, cur, k) ==
  IF k = 0 THEN cur
  ELSE IF h[cur].next = NULL THEN NULL
  ELSE insert_walk(h, h[cur].next, k - 1)

insert_len(n) == n + 1

\* variant: the new node does not take over current's link
insert_link_lost(h, l, cur, new_node, elem) ==
  Outcome([h EXCEPT ![new_node] = Node(elem, NULL),
                    ![cur].next = new_node],
          LinkedList(l.head, insert_len(l.len)), Unit)

\* variant: the new node points back at current
insert_link_cycle(h, l, cur, new_node, elem) ==
  Outcome([h EXCEPT ![new_node] = Node(elem, cur),
                    ![cur].next = new_node],
          LinkedList(l.head, insert_len(l.len)), Unit)

\* variant: the element lands at index itself, current's moves behind it
insert_link_at(h, l, cur, new_node, elem) ==
  Outcome([h EXCEPT ![new_node] = Node(h[cur].elem, h[cur].next),
                    ![cur] = Node(elem, new_node)],
          LinkedList(l.head, insert_len(l.len)), Unit)

\* new_node = Node { elem, next: current.next }; current.next = new_node
insert_link(h, l, cur, new_node, elem) ==
  Outcome([h EXCEPT ![new_node] = Node(elem, h[cur].next),
                    ![cur].next = new_node],
          LinkedList(l.head, insert_len(l.len)), Unit)

\* variant: the bound of the panic message, index <= len
insert_check_le(index, l) == index > len(l)

insert_check(index, l) == index >= len(l)

insert(h, l, index, elem) ==
  IF insert_check(index, l) THEN Outcome(h, l, PanicBounds)
  ELSE IF l.head = NULL THEN Outcome(h, l, PanicUnwrap)
  ELSE LET cur == insert_walk(h, l.head, index)
       IN  IF cur = NULL THEN Outcome(h, l, PanicUnwrap)
           ELSE insert_link(h, l, cur, Alloc(h), elem)

\* -------------------------------------------------------------- remove
\* variant: the range is 0..=index, one step more
RECURSIVE remove_walk_incl(_, _, _, _)
remove_walk_incl(h, prev, cur, k) ==
  IF k < 0 THEN [prev |-> prev, current |-> cur, panic |-> FALSE]
  ELSE IF h[cur].next = NULL THEN [prev |-> prev, current |-> cur, panic |-> TRUE]
  ELSE remove_walk_incl(h, cur, h[cur].next, k - 1)

\* for _ in 0..index { prev = Some(current); current = current.next.unwrap() }
RECURSIVE remove_walk(_, _, _, _)
remove_walk(h, prev, cur, k) ==
  IF k = 0 THEN [prev |-> prev, current |-> cur, panic |-> FALSE]
  ELSE IF h[cur].next = NULL THEN [prev |-> prev, current |-> cur, panic |-> TRUE]
  ELSE remove_walk(h, cur, h[cur].next, k - 1)

\* variant: the counter is not decremented
remove_len_keep(n) == n

remove_len(n) == n - 1

\* variant: prev keeps pointing at the removed node
remove_unlink_norelink(h, l, prev, cur) ==
  LET next == h[cur].next
      h1 == [h EXCEPT ![cur].next = NULL]
  IN  IF prev # NULL
      THEN Outcome(h1, LinkedList(l.head, remove_len(l.len)), Value(h[cur].elem))
      ELSE Outcome(h1, LinkedList(next, remove_len(l.len)), Value(h[cur].elem))

\* variant: next is cloned, not taken, so the removed node keeps its link
remove_unlink_notake(h, l, prev, cur) ==
  LET next == h[cur].next
  IN  IF prev # NULL
      THEN Outcome([h EXCEPT ![prev].next = next],
                   LinkedList(l.head, remove_len(l.len)), Value(h[cur].elem))
      ELSE Outcome(h, LinkedList(next, remove_len(l.len)), Value(h[cur].elem))

\* variant: next always goes to head
remove_unlink_head(h, l, prev, cur) ==
  LET next == h[cur].next
      h1 == [h EXCEPT ![cur].next = NULL]
  IN  Outcome(h1, LinkedList(next, remove_len(l.len)), Value(h[cur].elem))

\* next = current.next.take(); prev.next = next, or head = next
remove_unlink(h, l, prev, cur) ==
  LET next == h[cur].next
      h1 == [h EXCEPT ![cur].next = NULL]
  IN  IF prev # NULL
      THEN Outcome([h1 EXCEPT ![prev].next = next],
                   LinkedList(l.head, remove_len(l.len)), Value(h[cur].elem))
      ELSE Outcome(h1, LinkedList(next, remove_len(l.len)), Value(h[cur].elem))

remove_check(index, l) == index >= len(l)

remove(h, l, index) ==
  IF remove_check(index, l) THEN Outcome(h, l, PanicBounds)
  ELSE IF l.head = NULL THEN Outcome(h, l, PanicUnwrap)
  ELSE LET w == remove_walk(h, NULL, l.head, index)
       IN  IF w.panic THEN Outcome(h, l, PanicUnwrap)
           ELSE remove_unlink(h, l, w.prev, w.current)

\* derived Clone: Option<Rc<..>>::clone copies the handle, not the node
clone(l) == LinkedList(l.head, l.len)

\* ------------------------------------------------------------- actions
Call(name, l, index, elem) ==
  [name |-> name, list |-> l, index |-> index, elem |-> elem]

Init ==
  /\ heap = [n \in Nodes |-> FreeCell]
  /\ lists = [l \in {"a"} |-> new]
  /\ call = Call("new", "a", 0, 0)
  /\ ret = Unit
  /\ script = <<>>
  /\ results = <<>>

\* the method ran on list l with outcome r
Apply(l, r, c) ==
  /\ lists' = [lists EXCEPT ![l] = r.list]
  /\ heap' = Drop(r.heap, lists')
  /\ ret' = r.ret
  /\ call' = c

CanAlloc(l) == FreeNodes(heap) # {} /\ lists[l].len < MaxLen

Push(l, x) ==
  /\ CanAlloc(l)
  /\ Apply(l, push(heap, lists[l], x), Call("push", l, 0, x))
  /\ UNCHANGED <<script, results>>

Pop(l) ==
  /\ Apply(l, pop(heap, lists[l]), Call("pop", l, 0, 0))
  /\ UNCHANGED <<script, results>>

Insert(l, index, x) ==
  /\ index < lists[l].len => CanAlloc(l)
  /\ Apply(l, insert(heap, lists[l], index, x), Call("insert", l, index, x))
  /\ UNCHANGED <<script, results>>

Remove(l, index) ==
  /\ Apply(l, remove(heap, lists[l], index), Call("remove", l, index, 0))
  /\ UNCHANGED <<script, results>>

IsEmpty(l) ==
  /\ Apply(l, Outcome(heap, lists[l], Bool(is_empty(lists[l]))),
           Call("is_empty", l, 0, 0))
  /\ UNCHANGED <<script, results>>

LenCall(l) ==
  /\ Apply(l, Outcome(heap, lists[l], Usize(len(lists[l]))),
           Call("len", l, 0, 0))
  /\ UNCHANGED <<script, results>>

\* let b = a.clone()
Clone ==
  /\ "b" \notin DOMAIN lists
  /\ lists' = lists @@ ("b" :> clone(lists["a"]))
  /\ heap' = heap
  /\ call' = Call("clone", "b", 0, 0)
  /\ ret' = Unit
  /\ UNCHANGED <<script, results>>

Next ==
  \/ \E l \in DOMAIN lists, x \in Val : Push(l, x)
  \/ \E l \in DOMAIN lists : Pop(l)
  \/ \E l \in DOMAIN lists, i \in Indices, x \in Val : Insert(l, i, x)
  \/ \E l \in DOMAIN lists, i \in Indices : Remove(l, i)
  \/ \E l \in DOMAIN lists : IsEmpty(l)
  \/ \E l \in DOMAIN lists : LenCall(l)

\* one owner, the API of the list
Spec == Init /\ [][Next]_vars

\* the value that is being mutated: the clone once it exists
Owner == IF "b" \in DOMAIN lists THEN {"b"} ELSE {"a"}

NextClone ==
  \/ \E l \in Owner, x \in Val : Push(l, x)
  \/ \E l \in Owner : Pop(l)
  \/ \E l \in Owner, i \in Indices, x \in Val : Insert(l, i, x)
  \/ \E l \in Owner, i \in Indices : Remove(l, i)
  \/ \E l \in DOMAIN lists : IsEmpty(l)
  \/ \E l \in DOMAIN lists : LenCall(l)
  \/ Clone

\* the list and one clone of it; the clone is mutated, both are observed
SpecClone == Init /\ [][NextClone]_vars

\* push x1..xn on a new list, then pop until one more than n results
LifoPush(x) ==
  /\ results = <<>>
  /\ Len(script) < MaxScript
  /\ FreeNodes(heap) # {}
  /\ Apply("a", push(heap, lists["a"], x), Call("push", "a", 0, x))
  /\ script' = Append(script, x)
  /\ UNCHANGED results

LifoPop ==
  /\ Len(results) <= Len(script)
  /\ Apply("a", pop(heap, lists["a"]), Call("pop", "a", 0, 0))
  /\ results' = Append(results, ret')
  /\ UNCHANGED script

NextLifo == (\E x \in Val : LifoPush(x)) \/ LifoPop

SpecLifo == Init /\ [][NextLifo]_vars

\* ------------------------------------------------------- observations
Chn(l) == ChainOf(heap, lists[l])
Elems(l) == ElemsOf(heap, lists[l])
Mutators == {"push", "pop", "insert", "remove"}

\* the number of Some results of pop() repeated until it returns None
RECURSIVE DrainCount(_, _)
DrainCount(h, l) ==
  LET r == pop(h, l)
  IN  IF r.ret.kind = "some" THEN 1 + DrainCount(r.heap, r.list) ELSE 0

\* s without its position i (1-based)
Without(s, i) == SubSeq(s, 1, i - 1) \o SubSeq(s, i + 1, Len(s))
\* s with x put after its position i (1-based)
After(s, i, x) == SubSeq(s, 1, i) \o <<x>> \o SubSeq(s, i + 1, Len(s))

\* ------------------------------------------------------------- claims
\* C1: in every state reached by push, pop, insert and remove, len() is the
\* number of nodes reachable from head, and the number of non-empty results
\* of draining the list with pop().
LengthInvariant ==
  \A l \in DOMAIN lists :
    /\ len(lists[l]) = Len(Chn(l))
    /\ len(lists[l]) = DrainCount(heap, lists[l])

LengthWitness ==
  /\ call.name = "remove" /\ ret.kind = "value"
  /\ len(lists["a"]) = 2 /\ DrainCount(heap, lists["a"]) = 2

PopEmptyNoop ==
  [][\A l \in DOMAIN lists :
       (call'.name = "pop" /\ call'.list = l /\ is_empty(lists[l])) =>
         /\ ret' = None
         /\ heap' = heap /\ lists' = lists
         /\ lists'[l].head = NULL /\ len(lists'[l]) = 0]_vars

PopEmptyWitness ==
  /\ call.name = "pop" /\ ret = None
  /\ lists["a"].head = NULL /\ len(lists["a"]) = 0

\* C5: after pushing x1..xn on a new list, the k-th pop() returns x(n-k+1)
\* for k <= n, and the (n+1)-th returns None.
LifoOrder ==
  \A k \in 1..Len(results) :
    IF k <= Len(script)
    THEN results[k] = Some(script[Len(script) - k + 1])
    ELSE results[k] = None

LifoWitness ==
  /\ Len(script) = 3 /\ Len(results) = 4
  /\ script[1] # script[3]

RemoveAtIndex ==
  [][\A l \in DOMAIN lists :
       (call'.name = "remove" /\ call'.list = l
          /\ call'.index < len(lists[l])) =>
         /\ ret' = Value(Elems(l)[call'.index + 1])
         /\ Elems(l)' = Without(Elems(l), call'.index + 1)
         /\ Chn(l)' = Without(Chn(l), call'.index + 1)
         /\ len(lists'[l]) = len(lists[l]) - 1
         /\ (call'.index = 0 =>
               lists'[l].head = heap[lists[l].head].next)]_vars

RemoveWitness ==
  /\ call.name = "remove" /\ call.index = 1 /\ ret.kind = "value"
  /\ Len(Elems("a")) = 2 /\ ret.val \notin Range(Elems("a"))

NoSharing ==
  [][\A l \in DOMAIN lists', m \in DOMAIN lists' :
       l # m =>
         /\ (call'.name \in Mutators /\ call'.list = l /\ m \in DOMAIN lists)
              => /\ Elems(m)' = Elems(m)
                 /\ len(lists'[m]) = len(lists[m])
         /\ len(lists'[l]) = Len(Chn(l)')]_vars

\* C10: is_empty() <=> len() = 0 <=> head absent in every state, and
\* is_empty() and len() report that without touching chain or counter.
EmptinessConsistent ==
  /\ [](\A l \in DOMAIN lists :
          /\ is_empty(lists[l]) <=> (len(lists[l]) = 0)
          /\ (len(lists[l]) = 0) <=> (lists[l].head = NULL))
  /\ [][\A l \in DOMAIN lists :
          /\ (call'.name = "is_empty" /\ call'.list = l) =>
               /\ ret' = Bool(lists[l].head = NULL)
               /\ heap' = heap /\ lists' = lists
          /\ (call'.name = "len" /\ call'.list = l) =>
               /\ ret' = Usize(Len(Chn(l)))
               /\ heap' = heap /\ lists' = lists]_vars

EmptinessWitness ==
  /\ call.name = "is_empty" /\ ret = Bool(TRUE)
  /\ lists["a"].head = NULL /\ heap = [n \in Nodes |-> FreeCell]

\* the nodes a step added to the chain of l
NewNodes(l) == Range(Chn(l)') \ Range(Chn(l))
\* an insert the bounds check lets through
Accepted(l) ==
  call'.name = "insert" /\ call'.list = l /\ call'.index < len(lists[l])

InBounds(l) ==
  /\ call'.name \in Mutators /\ call'.list = l
  /\ call'.name \in {"insert", "remove"} => call'.index < len(lists[l])

Acyclic ==
  \A l \in DOMAIN lists :
    /\ Cardinality(Range(Chn(l))) = Len(Chn(l))
    /\ Len(Chn(l)) <= MaxNodes
    /\ Chn(l) # <<>> => heap[Chn(l)[Len(Chn(l))]].next = NULL

AcyclicWitness ==
  /\ call.name = "insert" /\ ret = Unit /\ call.index = 0
  /\ Len(Chn("a")) = 3 /\ heap[Chn("a")[3]].next = NULL

\* the cells of heap h that hold a link to node n
LinkSources(h, n) == {m \in Nodes : h[m].elem # 0 /\ h[m].next = n}

\* C17: when remove(index) or pop() returns, the removed node is not
\* reachable from head, its own next is absent, and the node that followed
\* it is linked from the former predecessor only, or from head only.
RemovedSevered ==
  [][\A l \in DOMAIN lists :
       /\ (call'.name = "remove" /\ call'.list = l
             /\ call'.index < len(lists[l])) =>
            LET i == call'.index + 1
                c == Chn(l)
                r == remove(heap, lists[l], call'.index)
                succ == IF i < Len(c) THEN c[i + 1] ELSE NULL
            IN  /\ c[i] \notin Range(ChainOf(r.heap, r.list))
                /\ c[i] \notin Range(Chn(l)')
                /\ r.heap[c[i]].next = NULL
                /\ succ # NULL =>
                     /\ LinkSources(r.heap, succ) =
                          IF i > 1 THEN {c[i - 1]} ELSE {}
                     /\ (r.list.head = succ) <=> (i = 1)
       /\ (call'.name = "pop" /\ call'.list = l /\ Chn(l) # <<>>) =>
            LET c == Chn(l)
                r == pop(heap, lists[l])
            IN  /\ c[Len(c)] \notin Range(ChainOf(r.heap, r.list))
                /\ c[Len(c)] \notin Range(Chn(l)')
                /\ r.heap[c[Len(c)]].next = NULL]_vars

RemovedSeveredWitness ==
  /\ call.name = "remove" /\ call.index = 0 /\ ret.kind = "value"
  /\ Len(Chn("a")) = 2

\* how often v occurs as an element on the walk from link n
RECURSIVE CountFrom(_, _, _, _)
CountFrom(h, n, v, fuel) ==
  IF n = NULL \/ fuel = 0 THEN 0
  ELSE (IF h[n].elem = v THEN 1 ELSE 0) + CountFrom(h, h[n].next, v, fuel - 1)

\* how often v occurs in list l
Count(l, v) == CountFrom(heap, lists[l].head, v, MaxNodes + 1)

\* what a call adds to the count of v: 1 for the element a successful
\* push/insert was given, -1 for the element a pop/remove returned
Delta(c, r, v) ==
  (IF c.name \in {"push", "insert"} /\ r = Unit /\ c.elem = v THEN 1 ELSE 0)
  - (IF r.kind \in {"some", "value"} /\ r.val = v THEN 1 ELSE 0)

\* C18: the list starts empty and every call changes the multiset of stored
\* elements by exactly what it was given (a successful push/insert) or what
\* it returned (pop/remove); a panicking or empty call changes nothing.
Conservation ==
  /\ Elems("a") = <<>>
  /\ [][\A l \in DOMAIN lists :
          call'.list = l =>
            IF heap' = heap /\ lists' = lists
            THEN \A v \in Val : Delta(call', ret', v) = 0
            ELSE \A v \in Val :
                   Count(l, v)' = Count(l, v) + Delta(call', ret', v)]_vars

ConservationWitness ==
  /\ call.name = "pop" /\ ret.kind = "some"
  /\ Len(Elems("a")) = 2 /\ Count("a", ret.val) = 1

\* the element at position 0, 0 when there is none
First(l) == IF lists[l].head = NULL THEN 0 ELSE heap[lists[l].head].elem

====
